---- MODULE Spec2Model ----
(***************************************************************************)
(* Stratum proxy (src/index.js).  The file holds two complete programs,    *)
(* one after the other: lines 1-429 (variant 1, the WildRig build: every   *)
(* connection starts authorized, subscribe always binds progpow and mints  *)
(* the first job) and lines 431-802 (variant 2: subscribe binds the        *)
(* requested algorithm, authorize mints the first job, a 30 s timer        *)
(* broadcasts jobs).  `variant` selects the program that is running.       *)
(*                                                                         *)
(* Node.js runs one callback at a time: a handler runs without             *)
(* interruption up to its next backend call, and the reply callback and    *)
(* every promise continuation that follows it run as one step.  A handler  *)
(* suspended on a backend call is an element of `tasks`; a session's lines *)
(* are numbered and a tick has one pending call, so no two are equal.      *)
(*                                                                         *)
(* The data handler starts one async callback per non-empty line, each     *)
(* with its own try/catch; the model delivers the lines one per step, a    *)
(* chunk of several lines being the same lines in successive steps.        *)
(***************************************************************************)
EXTENDS Integers, Sequences, FiniteSets, TLC

\* ---------------------------------------------------------------- bounds
MaxSessions == 2
\* external events of a run: lines received plus broadcast ticks that find work
MaxEvents == 3

\* ------------------------------------------------------------- constants
EXTRA_NONCE_BYTES == 4

\* verificationprogress is modelled in units of 1/10000
SyncThreshold == 9990

\* JS null / undefined
Null == "NULL"
Undefined == "UNDEFINED"

Variants == {1, 2}
Sessions == 1..MaxSessions
ProgressValues == {9990, 10000}
Usernames == {"alice"}
AlgoNames == {"progpow-veil", "sha256d", "randomx-veil", "scrypt"}
\* clientId values of mining.subscribe, as character sequences; <<Undefined>> is
\* an absent third/second parameter
ClientIds == {<<Undefined>>, <<"a", "b">>}
Supported == {"progpow", "sha256d", "randomx"}

Passwords == {"x"}
\* the messages of the errors the node answers a submitblock call with
BackendErrors == {"bad-txns", "high-hash"}
\* the outcomes of a submitblock call: resolve(result) or reject(err)
SubmitAnswers == {"ok"} \cup BackendErrors
Header == "hdr"
Nonce == "nonce"
MixHash == "mix"

VARIABLES
    variant,      \* which of the two programs of index.js runs
    progress,     \* the node's verificationprogress (backend state)
    socket,       \* per session: "none" (not yet connected), "open", "closed"
    session,      \* per session: the `client` object of the connection handler
    clients,      \* const clients = new Set()
    currentJobs,  \* const currentJobs = new Map(), job_id -> job
    jobCounter,   \* let jobCounter = 0
    issued,       \* history: the jobs createMiningJob resolved, in order, and for whom
    tasks,        \* handlers suspended on a backend call
    wire,         \* per session: the frames written to its socket, in order
    rpc,          \* history: backend calls issued
    recv,         \* history, per session: the lines received from it, in order
    failed,       \* history: the handlers whose createMiningJob call was rejected
    tickLog       \* history, per broadcast tick: the sessions closed when it
                  \* started and the sessions it called createMiningJob for

vars == <<variant, progress, socket, session, clients, currentJobs, jobCounter,
          issued, tasks, wire, rpc, recv, failed, tickLog>>

\* ----------------------------------------------------------- pure helpers
\* const ALGORITHMS = {...}; ALGORITHMS[name] (undefined when absent)
ALGORITHMS(name) ==
    CASE name = "progpow-veil" -> "progpow"
      [] name = "sha256d" -> "sha256d"
      [] name = "randomx-veil" -> "randomx"
      [] OTHER -> Undefined

\* difficulties in units of 1/1000
getDifficultyForAlgo(algo) ==
    CASE algo = "progpow" -> 2
      [] algo = "sha256d" -> 10
      [] algo = "randomx" -> 5
      [] OTHER -> 10

\* `${x}` : template-literal conversion of a value to a string
ToStr(x) ==
    CASE x = Null -> "null"
      [] x = Undefined -> "undefined"
      [] OTHER -> x

\* `${clientId}` on a string kept as a sequence of characters
ClientIdStr(x) ==
    IF x = <<Undefined>> THEN <<"u", "n", "d", "e", "f", "i", "n", "e", "d">> ELSE x

\* Buffer.from('00'.repeat(n), 'hex')
ZeroBuffer(n) == [i \in 1..n |-> 0]

HexDigit(d) == IF d < 10 THEN ToString(d) ELSE <<"a", "b", "c", "d", "e", "f">>[d - 9]

\* buf.toString('hex'): two hex digits per byte
RECURSIVE BufToHex(_)
BufToHex(buf) ==
    IF buf = <<>> THEN <<>>
    ELSE <<HexDigit(Head(buf) \div 16), HexDigit(Head(buf) % 16)>> \o BufToHex(Tail(buf))

\* the counter after `++jobCounter`
IncCounter(c) == c + 1

\* mutant: the number is taken from the counter as read when createMiningJob was
\* called, before the await
staleJobNumber(t, c) == t.at + 1

\* `++jobCounter` in the getblocktemplate callback of the handler t: the counter is
\* read and written in that one callback
nextJobNumber(t, c) == IncCounter(c)

\* job_id: `${algo}-${++jobCounter}`, kept as the pair (prefix, number)
JobId(algo, n) == <<ToStr(algo), n>>

\* const isSynced = info.verificationprogress > 0.999
isSynced(p) == p > SyncThreshold

\* ------------------------------------------------------------------ frames
SetDifficultyFrame(d) == [t |-> "mining.set_difficulty", id |-> 0, difficulty |-> d]

\* the subscribe result: result[1] is the extra-nonce string, result[2] its length
SubscribeFrame(id, xn, len) ==
    [t |-> "subscribed", id |-> id, extraNonce |-> xn, extraNonceLen |-> len]

ResultFrame(id) == [t |-> "result", id |-> id, result |-> TRUE, error |-> Null]

ErrorFrame(id, msg) == [t |-> "error", id |-> id, result |-> Null, error |-> msg]

\* the switch on the algorithm that attaches the algorithm-specific fields
AlgoExtras(algo) ==
    CASE algo = "progpow" -> <<"progpow_header", "progpow_mix_hash">>
      [] algo = "sha256d" -> <<"merkle">>
      [] algo = "randomx" -> <<"seed_hash">>
      [] OTHER -> <<>>

\* mutant: the job is tagged with a hard-coded algorithm
MakeJobProgpow(algo, n) ==
    [job_id |-> JobId("progpow", n), algorithm |-> "progpow", clean_jobs |-> TRUE,
     difficulty |-> getDifficultyForAlgo("progpow"), extras |-> AlgoExtras("progpow")]

\* the job object createMiningJob builds from a template
MakeJob(algo, n) ==
    [job_id |-> JobId(algo, n), algorithm |-> algo, clean_jobs |-> TRUE,
     difficulty |-> getDifficultyForAlgo(algo), extras |-> AlgoExtras(algo)]

\* the counter inside a job's id
JobNumber(job) == job.job_id[2]

\* a table that holds the latest job only
MapSetLatest(m, k, v) == [x \in {k} |-> v]

\* currentJobs.set(job.job_id, job)
MapSet(m, k, v) == [x \in DOMAIN m \cup {k} |-> IF x = k THEN v ELSE m[x]]

\* socket.write(frame): a frame written after the socket ended is marked late
Write(w, s, frames) ==
    [w EXCEPT ![s] = @ \o [i \in 1..Len(frames) |->
                              [f |-> frames[i], late |-> socket[s] # "open"]]]

\* sendMiningJob(client, job): the frames it writes
\* variant 1: no authorized check, fixed parameter list
\* variant 2: returns early unless authorized; extras chosen by client.algorithm
sendMiningJob(s, job) ==
    IF variant = 1
    THEN <<[t |-> "mining.notify", id |-> 0, job_id |-> job.job_id, extras |-> <<>>]>>
    ELSE IF ~session[s].authorized THEN <<>>
    ELSE <<[t |-> "mining.notify", id |-> 0, job_id |-> job.job_id,
            extras |-> AlgoExtras(session[s].algorithm)]>>

\* mutant: nonce and mix hash swapped for progpow, mix hash sent for the others
submitParamsSwapped(algo) ==
    CASE algo = "progpow" -> <<Header, Nonce, MixHash>>
      [] OTHER -> <<Header, MixHash, Nonce>>

\* submitWork: the parameter list handed to client.submitblock, <<>> when the
\* promise is rejected before any call ('Invalid algorithm', variant 2)
submitParams(algo) ==
    CASE algo = "progpow" -> <<Header, MixHash, Nonce>>
      [] algo \in {"sha256d", "randomx"} -> <<Header, Nonce>>
      [] OTHER -> IF variant = 1 THEN <<Header, Nonce>> ELSE <<>>

NewClient ==
    IF variant = 1
    THEN [algorithm |-> Null, authorized |-> TRUE, wallet |-> "local_worker",
          difficulty |-> 0, extraNonce |-> <<>>]
    ELSE [algorithm |-> Null, authorized |-> FALSE, wallet |-> Null,
          difficulty |-> 0, extraNonce |-> <<>>]

Task(kind, s, id, pc, algo) ==
    [kind |-> kind, s |-> s, id |-> id, pc |-> pc, algo |-> algo, tick |-> 0, at |-> 0]

\* --------------------------------------------------------------------- Init
Init ==
    /\ variant \in Variants
    /\ progress \in ProgressValues
    /\ socket = [s \in Sessions |-> "none"]
    /\ session = [s \in Sessions |-> NewClient]
    /\ clients = {}
    /\ currentJobs = <<>>
    /\ jobCounter = 0
    /\ issued = <<>>
    /\ tasks = {}
    /\ wire = [s \in Sessions |-> <<>>]
    /\ rpc = [getblocktemplate |-> 0, submitblock |-> {}, answers |-> {}]
    /\ recv = [s \in Sessions |-> <<>>]
    /\ failed = {}
    /\ tickLog = <<>>

\* ------------------------------------------------------------- connections
\* net.createServer callback: a new client object, added to the registry
Connect(s) ==
    /\ socket[s] = "none"
    /\ \A x \in Sessions : x < s => socket[x] # "none"
    /\ socket' = [socket EXCEPT ![s] = "open"]
    /\ session' = [session EXCEPT ![s] = NewClient]
    /\ clients' = clients \cup {s}
    /\ UNCHANGED <<variant, progress, currentJobs, jobCounter, issued, tasks, wire,
                   rpc, recv, failed, tickLog>>

\* mutant: the handler forgets to remove the client
UnregisterNothing(s) == clients

\* clients.delete(client)
Unregister(s) == clients \ {s}

\* socket.on('end')
SocketEnd(s) ==
    /\ socket[s] = "open"
    /\ socket' = [socket EXCEPT ![s] = "closed"]
    /\ clients' = Unregister(s)
    /\ UNCHANGED <<variant, progress, session, currentJobs, jobCounter, issued, tasks,
                   wire, rpc, recv, failed, tickLog>>

\* socket.on('error')
SocketError(s) ==
    /\ socket[s] = "open"
    /\ clients' = Unregister(s)
    /\ socket' = [socket EXCEPT ![s] = "closed"]
    /\ UNCHANGED <<variant, progress, session, currentJobs, jobCounter, issued, tasks,
                   wire, rpc, recv, failed, tickLog>>

\* the node catches up with the chain
NodeSync ==
    /\ \E p \in ProgressValues : p > progress /\ progress' = p
    /\ UNCHANGED <<variant, socket, session, clients, currentJobs, jobCounter, issued,
                   tasks, wire, rpc, recv, failed, tickLog>>

\* ------------------------------------------------------------ job creation
RECURSIVE SumRecv(_)
SumRecv(S) == IF S = {} THEN 0 ELSE LET x == CHOOSE y \in S : TRUE
                                    IN Len(recv[x]) + SumRecv(S \ {x})

\* the run can take one more external event
MoreEvents == SumRecv(Sessions) + Len(tickLog) < MaxEvents

\* a line can arrive on an open socket
CanReceive(s) == socket[s] = "open" /\ MoreEvents

\* the request id of the next line of a session (clients number their requests)
NextId(s) == Len(recv[s]) + 1

\* history: the line just handled, with the authorized flag its handler found and
\* the algorithm the session has when the handler first suspends or returns
Received(s, method, algoAfter) ==
    [recv EXCEPT ![s] = Append(@, [method |-> method,
                                   authorized |-> session[s].authorized,
                                   algorithm |-> algoAfter])]

\* createMiningJob(t.algo) up to its first suspension point, for the handler t:
\* variant 1 throws on a missing algorithm, else awaits checkNodeStatus();
\* variant 2 calls getblocktemplate at once
\* (t.at notes the value of jobCounter at the call)
createMiningJob(t) ==
    IF variant = 1
    THEN IF t.algo = Null THEN [t EXCEPT !.pc = "thrown"]
         ELSE [t EXCEPT !.pc = "sync", !.at = jobCounter]
    ELSE [t EXCEPT !.pc = "tmpl", !.at = jobCounter]

\* the suspended handlers a call adds
Suspended(t) == IF t.pc = "thrown" THEN {} ELSE {t}

\* the getblocktemplate calls a list of new suspended handlers has issued
CountTemplate(ts) == Cardinality({t \in ts : t.pc = "tmpl"})

\* a loop that calls createMiningJob for every client of the registry
NextTargetAnyClient(from) ==
    LET c == {x \in clients : x > from}
    IN IF c = {} THEN 0 ELSE CHOOSE x \in c : \A y \in c : x <= y

\* for (const client of clients): the next client of the registry, in insertion
\* order (sessions are numbered in connection order), that is authorized; 0 if none
NextTarget(from) ==
    LET c == {x \in clients : x > from /\ session[x].authorized}
    IN IF c = {} THEN 0 ELSE CHOOSE x \in c : \A y \in c : x <= y

\* the broadcast loop from the client after `from` up to its next await
TickLoop(t, from) ==
    LET c == NextTarget(from)
    IN IF c = 0 THEN {}
       ELSE Suspended(createMiningJob([t EXCEPT !.s = c, !.algo = session[c].algorithm]))

\* mutant: the try/catch wraps the whole loop, a failure ends the tick
TickAbort(t) == {}

\* the try/catch of the broadcast loop is inside the for: after a failed
\* createMiningJob for the client of t the loop goes on with the next client
TickCatch(t) == TickLoop(t, t.s)

\* history of a tick: createMiningJob called for the session of the handler in ts
LogVisit(log, k, ts) ==
    IF ts = {} THEN log
    ELSE [log EXCEPT ![k].visits =
              Append(@, [s |-> (CHOOSE t \in ts : TRUE).s, outcome |-> "pending"])]

\* history of a tick: how its pending createMiningJob call ended
LogOutcome(log, k, o) ==
    [log EXCEPT ![k].visits = [@ EXCEPT ![Len(@)].outcome = o]]

\* ---------------------------------------------------------- inbound frames
\* case 'mining.subscribe'
Subscribe(s, name, cid) ==
    /\ CanReceive(s)
    /\ LET id == NextId(s) IN
       IF variant = 1
       THEN \* ALGORITHMS['progpow-veil'] is always set: the name is ignored
            LET buf == ZeroBuffer(EXTRA_NONCE_BYTES)
                t == createMiningJob(Task("subscribe", s, id, "", "progpow"))
            IN /\ session' = [session EXCEPT ![s].algorithm = "progpow",
                                             ![s].difficulty = getDifficultyForAlgo("progpow"),
                                             ![s].extraNonce = buf]
               /\ wire' = Write(wire, s, <<SetDifficultyFrame(getDifficultyForAlgo("progpow")),
                                          SubscribeFrame(id, BufToHex(buf), EXTRA_NONCE_BYTES)>>)
               /\ tasks' = tasks \cup Suspended(t)
               /\ rpc' = [rpc EXCEPT !.getblocktemplate = @ + CountTemplate(Suspended(t))]
       ELSE IF ALGORITHMS(name) = Undefined
       THEN /\ wire' = Write(wire, s, <<ErrorFrame(id, "Unsupported algorithm")>>)
            /\ UNCHANGED <<session, tasks, rpc>>
       ELSE /\ session' = [session EXCEPT ![s].algorithm = ALGORITHMS(name),
                                          ![s].difficulty = getDifficultyForAlgo(ALGORITHMS(name))]
            \* the result reports `${clientId}` as extra-nonce and '08' as its length
            /\ wire' = Write(wire, s, <<SetDifficultyFrame(getDifficultyForAlgo(ALGORITHMS(name))),
                                       SubscribeFrame(id, ClientIdStr(cid), 8)>>)
            /\ UNCHANGED <<tasks, rpc>>
    /\ recv' = Received(s, "mining.subscribe", session'[s].algorithm)
    /\ UNCHANGED <<variant, progress, socket, clients, currentJobs, jobCounter, issued,
                   failed, tickLog>>

\* case 'mining.authorize'
Authorize(s, username, password) ==
    /\ CanReceive(s)
    /\ recv' = Received(s, "mining.authorize", session[s].algorithm)
    /\ LET id == NextId(s) IN
       IF variant = 1
       THEN /\ wire' = Write(wire, s, <<ResultFrame(id)>>)
            /\ UNCHANGED <<session, tasks, rpc>>
       ELSE LET t == createMiningJob(Task("authorize", s, id, "", session[s].algorithm))
            IN /\ session' = [session EXCEPT ![s].authorized = TRUE, ![s].wallet = username]
               /\ tasks' = tasks \cup Suspended(t)
               /\ rpc' = [rpc EXCEPT !.getblocktemplate = @ + CountTemplate(Suspended(t))]
               /\ UNCHANGED wire
    /\ UNCHANGED <<variant, progress, socket, clients, currentJobs, jobCounter, issued,
                   failed, tickLog>>

\* variant 2 only: if (!client.authorized) return the 'Unauthorized worker' error
submitAllowed(s) == variant = 1 \/ session[s].authorized

\* case 'mining.submit'
Submit(s) ==
    /\ CanReceive(s)
    /\ recv' = Received(s, "mining.submit", session[s].algorithm)
    /\ LET id == NextId(s)
           algo == session[s].algorithm
           params == submitParams(algo)
       IN IF ~submitAllowed(s)
          THEN /\ wire' = Write(wire, s, <<ErrorFrame(id, "Unauthorized worker")>>)
               /\ UNCHANGED <<tasks, rpc>>
          ELSE IF params = <<>>
          THEN /\ wire' = Write(wire, s, <<ErrorFrame(id, "Invalid algorithm")>>)
               /\ UNCHANGED <<tasks, rpc>>
          ELSE /\ tasks' = tasks \cup {Task("submit", s, id, "submit", algo)}
               /\ rpc' = [rpc EXCEPT !.submitblock =
                              @ \cup {[s |-> s, id |-> id, algo |-> algo, params |-> params]}]
               /\ UNCHANGED wire
    /\ UNCHANGED <<variant, progress, socket, session, clients, currentJobs, jobCounter,
                   issued, failed, tickLog>>

\* any other method: variant 1 answers 'Unknown method', variant 2 has no default
\* case and writes nothing
UnknownMethod(s) ==
    /\ CanReceive(s)
    /\ recv' = Received(s, "mining.ping", session[s].algorithm)
    /\ wire' = IF variant = 1
               THEN Write(wire, s, <<ErrorFrame(NextId(s), "Unknown method")>>)
               ELSE wire
    /\ UNCHANGED <<variant, progress, socket, session, clients, currentJobs, jobCounter,
                   issued, tasks, rpc, failed, tickLog>>

\* the non-empty lines that are not a JSON object: text JSON.parse rejects,
\* the text null, and any other JSON value (5, "x", [1])
LineKinds == {"garbage", "null", "value"}

\* a line that is not a JSON object.  JSON.parse throws on garbage, and the
\* destructuring of handleStratumMethod throws on null: the catch of the data
\* handler answers 'Invalid message' with id null (0 here).  Any other value has
\* no method and no id and goes through the switch as an unknown method.
BadLine(s, kind) ==
    /\ CanReceive(s)
    /\ recv' = Received(s, "", session[s].algorithm)
    /\ wire' = IF kind \in {"garbage", "null"}
               THEN Write(wire, s, <<ErrorFrame(0, "Invalid message")>>)
               ELSE IF variant = 1
               THEN Write(wire, s, <<ErrorFrame(0, "Unknown method")>>)
               ELSE wire
    /\ UNCHANGED <<variant, progress, socket, session, clients, currentJobs, jobCounter,
                   issued, tasks, rpc, failed, tickLog>>

\* ----------------------------------------------------------- backend replies
\* variant 1: the getBlockchainInfo callback of checkNodeStatus, then the rest of
\* createMiningJob up to the getblocktemplate call.  Only subscribe awaits it.
NodeStatusReply(t, r) ==
    /\ t \in tasks
    /\ t.pc = "sync"
    /\ IF r = "info" /\ isSynced(progress)
       THEN /\ tasks' = (tasks \ {t}) \cup {[t EXCEPT !.pc = "tmpl"]}
            /\ rpc' = [rpc EXCEPT !.getblocktemplate = @ + 1]
            /\ UNCHANGED failed
       ELSE \* err, no info, or not synced: createMiningJob throws, subscribe logs it
            /\ tasks' = tasks \ {t}
            /\ failed' = failed \cup {t}
            /\ UNCHANGED rpc
    /\ UNCHANGED <<variant, progress, socket, session, clients, currentJobs, jobCounter,
                   issued, wire, recv, tickLog>>

\* a caller that reports a failed createMiningJob to the session
AfterCreateReporting(t, jobs) ==
    IF jobs = <<>> THEN <<ErrorFrame(t.id, "Internal error")>>
    ELSE sendMiningJob(t.s, jobs[1])
         \o (IF t.kind = "authorize" THEN <<ResultFrame(t.id)>> ELSE <<>>)

\* what the caller of createMiningJob writes once the call has settled:
\* subscribe (variant 1) and the broadcast loop send the job, if any;
\* authorize (variant 2) sends the job, if any, and then its result
AfterCreate(t, jobs) ==
    LET notify == IF jobs = <<>> THEN <<>> ELSE sendMiningJob(t.s, jobs[1])
    IN IF t.kind = "authorize" THEN notify \o <<ResultFrame(t.id)>> ELSE notify

\* the getblocktemplate callback and the continuation of the awaiting handler
TemplateReply(t, r) ==
    /\ t \in tasks
    /\ t.pc = "tmpl"
    /\ LET rest == tasks \ {t}
           more == IF t.kind = "tick" THEN TickLoop(t, t.s) ELSE {}
           caught == IF t.kind = "tick" THEN TickCatch(t) ELSE {}
       IN
       IF r = "ok"
       THEN LET n == nextJobNumber(t, jobCounter)
                job == MakeJob(t.algo, n)
            IN /\ jobCounter' = n
               /\ currentJobs' = MapSet(currentJobs, job.job_id, job)
               /\ issued' = Append(issued, [job |-> job, t |-> t])
               /\ wire' = Write(wire, t.s, AfterCreate(t, <<job>>))
               /\ tasks' = rest \cup more
               /\ rpc' = [rpc EXCEPT !.getblocktemplate = @ + CountTemplate(more)]
               /\ tickLog' = IF t.kind = "tick"
                             THEN LogVisit(LogOutcome(tickLog, t.tick, "ok"), t.tick, more)
                             ELSE tickLog
               /\ UNCHANGED failed
       ELSE IF r = "none" /\ variant = 2
       THEN \* template.previousblockhash throws inside the callback, after
            \* ++jobCounter: the promise never settles
            /\ jobCounter' = IncCounter(jobCounter)
            /\ tasks' = rest \cup {[t EXCEPT !.pc = "hung"]}
            /\ tickLog' = IF t.kind = "tick" THEN LogOutcome(tickLog, t.tick, "hung")
                          ELSE tickLog
            /\ UNCHANGED <<currentJobs, issued, wire, rpc, failed>>
       ELSE \* reject(err): the caller logs the error and goes on
            /\ wire' = Write(wire, t.s, AfterCreate(t, <<>>))
            /\ tasks' = rest \cup caught
            /\ rpc' = [rpc EXCEPT !.getblocktemplate = @ + CountTemplate(caught)]
            /\ tickLog' = IF t.kind = "tick"
                          THEN LogVisit(LogOutcome(tickLog, t.tick, "err"), t.tick, caught)
                          ELSE tickLog
            /\ failed' = failed \cup {t}
            /\ UNCHANGED <<currentJobs, jobCounter, issued>>
    /\ UNCHANGED <<variant, progress, socket, session, clients, recv>>

\* the outer catch of handleStratumMethod answers 'Internal error'
submitResponseInternal(id, r) ==
    IF r = "ok" THEN ResultFrame(id) ELSE ErrorFrame(id, "Internal error")

\* what mining.submit returns once submitWork has settled: the accept response,
\* or error.message of the error submitWork rejected with
submitResponse(id, r) ==
    IF r = "ok" THEN ResultFrame(id) ELSE ErrorFrame(id, r)

\* the submitblock callback and the response of mining.submit
SubmitReply(t, r) ==
    /\ t \in tasks
    /\ t.pc = "submit"
    /\ wire' = Write(wire, t.s, <<submitResponse(t.id, r)>>)
    /\ tasks' = tasks \ {t}
    /\ rpc' = [rpc EXCEPT !.answers = @ \cup {[s |-> t.s, id |-> t.id, r |-> r]}]
    /\ UNCHANGED <<variant, progress, socket, session, clients, currentJobs, jobCounter,
                   issued, recv, failed, tickLog>>

\* ------------------------------------------------------------ broadcast tick
\* setInterval(async () => { for (const client of clients) ... }, 30000), variant 2
\* A tick that finds no authorized client in the registry changes nothing and is
\* not recorded.
Tick ==
    /\ variant = 2
    /\ MoreEvents
    /\ LET k == Len(tickLog) + 1
           t == [Task("tick", 0, 0, "", Null) EXCEPT !.tick = k]
           more == TickLoop(t, 0)
           entry == [gone |-> {x \in Sessions : socket[x] = "closed"},
                     auth |-> {x \in clients : session[x].authorized},
                     visits |-> <<>>]
       IN /\ tasks' = tasks \cup more
          /\ rpc' = [rpc EXCEPT !.getblocktemplate = @ + CountTemplate(more)]
          /\ tickLog' = IF more = {} THEN tickLog
                        ELSE LogVisit(Append(tickLog, entry), k, more)
    /\ UNCHANGED <<variant, progress, socket, session, clients, currentJobs, jobCounter,
                   issued, wire, recv, failed>>

\* --------------------------------------------------------------------- Next
Next ==
    \/ \E s \in Sessions : Connect(s)
    \/ \E s \in Sessions : SocketEnd(s)
    \/ \E s \in Sessions : SocketError(s)
    \/ NodeSync
    \/ \E s \in Sessions, name \in AlgoNames, cid \in ClientIds : Subscribe(s, name, cid)
    \/ \E s \in Sessions, u \in Usernames, p \in Passwords : Authorize(s, u, p)
    \/ \E s \in Sessions : Submit(s)
    \/ \E s \in Sessions : UnknownMethod(s)
    \/ \E s \in Sessions, kind \in LineKinds : BadLine(s, kind)
    \/ \E t \in tasks, r \in {"info", "err", "none"} : NodeStatusReply(t, r)
    \/ \E t \in tasks, r \in {"ok", "err", "none"} : TemplateReply(t, r)
    \/ \E t \in tasks, r \in SubmitAnswers : SubmitReply(t, r)
    \/ Tick

Spec == Init /\ [][Next]_vars

\* The steps the proxy takes by itself are those of its timers: setInterval
\* fires the broadcast every 30 s.  No backend call is given a timer.  When the
\* node answers and what the miners send is up to them: replies and lines get
\* no fairness.
FairSpec == Init /\ [][Next]_vars /\ WF_vars(Tick)

\* ------------------------------------------------------- claim vocabulary
\* the frames written to a session, in order
Frames(s) == [i \in DOMAIN wire[s] |-> wire[s][i].f]

IsError(f, id, msg) == f.t = "error" /\ f.id = id /\ f.error = msg

IsResult(f, id) == f.t = "result" /\ f.id = id /\ f.result = TRUE /\ f.error = Null

IsNotify(f, job_id) == f.t = "mining.notify" /\ f.job_id = job_id

\* the lines of a session that carry a given method
LinesOf(s, method) == {i \in DOMAIN recv[s] : recv[s][i].method = method}

\* the positions of the mining.notify frames a session got for a job
NotifiesOf(s, job_id) == {j \in DOMAIN wire[s] : IsNotify(wire[s][j].f, job_id)}

HexChars == {"0", "1", "2", "3", "4", "5", "6", "7", "8", "9", "a", "b", "c", "d", "e", "f"}

IsHexString(str) == \A i \in DOMAIN str : str[i] \in HexChars

\* the difficulty table of the data model, in units of 1/1000
ClaimedDifficulty(algo) ==
    CASE algo = "progpow" -> 2 [] algo = "sha256d" -> 10 [] algo = "randomx" -> 5
      [] OTHER -> 0

\* C1: a mining.submit handled while the session's authorized flag is false gets
\* the 'Unauthorized' error and causes no submitblock call; in particular every
\* submitblock call comes from a session that sent mining.authorize before.
C1_UnauthorizedSubmitNeverReachesBackend ==
    /\ \A s \in Sessions : \A i \in LinesOf(s, "mining.submit") :
          ~recv[s][i].authorized =>
             /\ \E j \in DOMAIN wire[s] : IsError(wire[s][j].f, i, "Unauthorized worker")
             /\ \A c \in rpc.submitblock : ~(c.s = s /\ c.id = i)
    /\ \A c \in rpc.submitblock :
          \E j \in LinesOf(c.s, "mining.authorize") : j < c.id

\* C2: whatever the interleaving of createMiningJob calls and backend replies,
\* no two jobs returned or registered in the live-job table share a job id.
C2_DistinctJobIds ==
    /\ \A i, j \in DOMAIN issued : i # j => issued[i].job.job_id # issued[j].job.job_id
    /\ \A i \in DOMAIN issued : /\ issued[i].job.job_id \in DOMAIN currentJobs
                               /\ currentJobs[issued[i].job.job_id] = issued[i].job
    /\ Cardinality(DOMAIN currentJobs) = Len(issued)

\* two jobs of the same algorithm whose createMiningJob calls overlapped: the
\* second call began before the first job was numbered
C2_Witness ==
    \E i, j \in DOMAIN issued :
        /\ i < j
        /\ issued[j].t.at < JobNumber(issued[i].job)
        /\ issued[i].t.algo = issued[j].t.algo

\* C3: a successful createMiningJob(A), A supported, returns a job with algorithm
\* A and id 'A-n', n greater than the number of every job issued before it,
\* whatever the algorithms of the earlier jobs.
C3_AlgorithmAndCounter ==
    \A i \in DOMAIN issued :
        issued[i].t.algo \in Supported =>
            /\ issued[i].job.algorithm = issued[i].t.algo
            /\ issued[i].job.job_id[1] = issued[i].t.algo
            /\ \A j \in 1..(i - 1) : JobNumber(issued[j].job) < JobNumber(issued[i].job)

\* a job of a supported algorithm issued after a job requested for another
\* algorithm, numbered right after it
C3_Witness ==
    \E i, j \in DOMAIN issued :
        /\ j < i
        /\ issued[i].t.algo \in Supported
        /\ issued[i].t.algo # issued[j].t.algo
        /\ JobNumber(issued[i].job) = JobNumber(issued[j].job) + 1

\* C4: once a session's algorithm is bound, no later step (subscribe, authorize)
\* changes it.
C4_AlgorithmNeverRebound ==
    [][\A s \in Sessions :
          session[s].algorithm # Null => session'[s].algorithm = session[s].algorithm]_vars

\* C5: the parameter list of every submitblock call follows the session's bound
\* algorithm: (header, mixHash, nonce) for progpow, (header, nonce) for sha256d
\* and randomx.
C5_SubmitParameterShape ==
    \A c \in rpc.submitblock :
        /\ c.algo = session[c.s].algorithm \/ \E i \in LinesOf(c.s, "mining.subscribe") : i > c.id
        /\ c.algo = recv[c.s][c.id].algorithm
        /\ c.algo = "progpow" => c.params = <<Header, MixHash, Nonce>>
        /\ c.algo \in {"sha256d", "randomx"} => c.params = <<Header, Nonce>>

\* a submitblock call of a session bound to sha256d or randomx
C5_Witness == \E c \in rpc.submitblock : c.algo \in {"sha256d", "randomx"}

\* C6: a session whose connection ended is out of the registry, and a broadcast
\* tick that starts afterwards neither calls createMiningJob for it nor writes a
\* mining.notify to it.
C6_NoBroadcastAfterDisconnect ==
    /\ \A s \in Sessions : socket[s] = "closed" => s \notin clients
    /\ \A k \in DOMAIN tickLog :
          \A i \in DOMAIN tickLog[k].visits : tickLog[k].visits[i].s \notin tickLog[k].gone
    /\ \A e \in {issued[i] : i \in DOMAIN issued} :
          e.t.kind = "tick" =>
             \A s \in tickLog[e.t.tick].gone : /\ e.t.s # s
                                               /\ NotifiesOf(s, e.job.job_id) = {}

\* a tick that started after an authorized session had disconnected has minted
\* a job for another session
C6_Witness ==
    \E k \in DOMAIN tickLog :
        /\ \E s \in tickLog[k].gone : session[s].authorized
        /\ \E i \in DOMAIN tickLog[k].visits : tickLog[k].visits[i].outcome = "ok"

\* C7: every subscribe result with id i is preceded by a mining.set_difficulty
\* carrying the fixed difficulty of the algorithm just bound, and carries a
\* non-empty hex extra-nonce whose byte length is the length the frame reports.
C7_SubscribeReply ==
    \A s \in Sessions : \A i \in DOMAIN wire[s] :
        LET f == wire[s][i].f IN
        f.t = "subscribed" =>
            /\ i > 1
            /\ wire[s][i - 1].f.t = "mining.set_difficulty"
            /\ wire[s][i - 1].f.difficulty = ClaimedDifficulty(recv[s][f.id].algorithm)
            /\ f.extraNonce # <<>>
            /\ IsHexString(f.extraNonce)
            /\ Len(f.extraNonce) = 2 * f.extraNonceLen

\* C8: every mining.authorize with id i sets authorized, records the username as
\* wallet, is answered {id: i, result: true, error: null}, and, unless the
\* backend call fails, brings exactly one mining.notify.
C8_AuthorizeAlwaysSucceeds ==
    \A s \in Sessions : \A i \in LinesOf(s, "mining.authorize") :
        LET pending == \E t \in tasks : t.s = s /\ t.id = i /\ t.kind = "authorize"
            rejected == \E t \in failed : t.s = s /\ t.id = i /\ t.kind = "authorize"
            jobs == {e \in {issued[n] : n \in DOMAIN issued} :
                        e.t.s = s /\ e.t.id = i /\ e.t.kind = "authorize"}
        IN /\ session[s].authorized
           /\ session[s].wallet \in Usernames
           /\ pending \/ \E j \in DOMAIN wire[s] : IsResult(wire[s][j].f, i)
           /\ pending \/ rejected \/ Cardinality(jobs) = 1
           /\ \A e \in jobs : Cardinality(NotifiesOf(s, e.job.job_id)) = 1

\* C9: while the backend's sync progress is not above 0.999, no createMiningJob
\* call succeeds, none requests a block template, and the live-job table and the
\* job counter stay as they were (empty and 0: progress only grows).
C9_NotSyncedNoJob ==
    progress <= SyncThreshold =>
        /\ issued = <<>>
        /\ rpc.getblocktemplate = 0
        /\ DOMAIN currentJobs = {}
        /\ jobCounter = 0

\* the visit of a tick whose outcome a step decides, as <<tick, position>>
Decided(o) ==
    {kn \in {<<k, Len(tickLog[k].visits)>> : k \in DOMAIN tickLog} :
        /\ kn[2] > 0
        /\ tickLog[kn[1]].visits[kn[2]].outcome = "pending"
        /\ tickLog'[kn[1]].visits[kn[2]].outcome = o}

\* C10: when minting fails for one session in a broadcast tick, the registry and
\* the sessions are unchanged and the tick goes on: it calls createMiningJob for
\* the next authorized session of the registry; and when minting succeeds for a
\* session, the job is registered and its mining.notify is written in that step.
C10_TickSurvivesFailure ==
    [][/\ \A kn \in Decided("err") :
             LET s == tickLog[kn[1]].visits[kn[2]].s IN
             /\ clients' = clients /\ session' = session /\ socket' = socket
             /\ \A c \in clients :
                   (c > s /\ session[c].authorized) =>
                      \E t \in tasks' : /\ t.kind = "tick" /\ t.tick = kn[1]
                                        /\ t.pc = "tmpl" /\ t.s > s /\ t.s <= c
       /\ \A kn \in Decided("ok") :
             LET s == tickLog[kn[1]].visits[kn[2]].s IN
             /\ Len(issued') = Len(issued) + 1
             /\ issued'[Len(issued')].t.s = s
             /\ issued'[Len(issued')].job.job_id \in DOMAIN currentJobs'
             /\ Len(wire'[s]) = Len(wire[s]) + 1
             /\ IsNotify(wire'[s][Len(wire'[s])].f, issued'[Len(issued')].job.job_id)
      ]_vars

\* a tick whose first mint failed and whose second, for another session, succeeded
C10_Witness ==
    \E k \in DOMAIN tickLog :
        \E i, j \in DOMAIN tickLog[k].visits :
            /\ i < j
            /\ tickLog[k].visits[i].outcome = "err"
            /\ tickLog[k].visits[j].outcome = "ok"

\* C11: when the backend answers the submitblock call of a mining.submit with id
\* i, the session is written exactly one frame: {id: i, result: true, error:
\* null} if the block was accepted, else an error response with id i carrying
\* the backend's message; the step leaves the registry, the connection and the
\* session's algorithm, authorized, wallet and difficulty as they were.
C11_SubmitOutcome ==
    [][\A t \in tasks \ tasks' :
          t.kind = "submit" =>
             \E a \in rpc'.answers \ rpc.answers :
                /\ a.s = t.s /\ a.id = t.id
                /\ Len(wire'[t.s]) = Len(wire[t.s]) + 1
                /\ LET f == wire'[t.s][Len(wire'[t.s])].f IN
                   IF a.r = "ok" THEN IsResult(f, t.id)
                   ELSE /\ a.r \in BackendErrors
                        /\ IsError(f, t.id, a.r)
                        /\ f.result = Null
                /\ clients' = clients /\ socket' = socket /\ session' = session
      ]_vars

\* a connected, authorized session was written the backend's message for a
\* submit the backend rejected
C11_Witness ==
    \E s \in clients :
        /\ session[s].authorized
        /\ \E a \in rpc.answers :
              /\ a.s = s /\ a.r \in BackendErrors
              /\ \E j \in DOMAIN wire[s] : IsError(wire[s][j].f, a.id, a.r) /\ ~wire[s][j].late

\* the sessions that receive a line of the given method in the step
Receiving(method) ==
    {s \in Sessions : /\ Len(recv'[s]) = Len(recv[s]) + 1
                      /\ recv'[s][Len(recv'[s])].method = method}

\* C12: a frame with id i whose method is none of mining.subscribe,
\* mining.authorize, mining.submit is answered by exactly one frame, an error
\* response with id i and an 'Unknown method' error; it causes no backend call
\* and leaves the sessions, the registry and the live-job table unchanged.
C12_UnknownMethodAnswered ==
    [][\A s \in Receiving("mining.ping") :
          /\ Len(wire'[s]) = Len(wire[s]) + 1
          /\ IsError(wire'[s][Len(wire'[s])].f, Len(recv'[s]), "Unknown method")
          /\ rpc' = rpc /\ tasks' = tasks
          /\ session' = session /\ clients' = clients /\ currentJobs' = currentJobs
      ]_vars

\* the algorithm names a subscribe can request that ALGORITHMS does not list
UnsupportedNames == {name \in AlgoNames : ALGORITHMS(name) = Undefined}

\* C13: a mining.subscribe with id i that requests an unsupported algorithm name
\* is answered by the 'Unsupported algorithm' error with id i and by nothing
\* else (no mining.set_difficulty), starts no createMiningJob and registers no
\* job, and leaves the session's algorithm, difficulty and extra-nonce as they
\* were.
C13_UnsupportedAlgorithmRejected ==
    [][\A s \in Sessions, name \in UnsupportedNames, cid \in ClientIds :
          Subscribe(s, name, cid) =>
             /\ Len(wire'[s]) = Len(wire[s]) + 1
             /\ IsError(wire'[s][Len(wire'[s])].f, Len(recv'[s]), "Unsupported algorithm")
             /\ tasks' = tasks /\ rpc' = rpc
             /\ currentJobs' = currentJobs /\ jobCounter' = jobCounter
             /\ session'[s].algorithm = session[s].algorithm
             /\ session'[s].difficulty = session[s].difficulty
             /\ session'[s].extraNonce = session[s].extraNonce
      ]_vars

\* C14: a line that is not a JSON object is answered by exactly one frame, an
\* error frame, and has no other effect: no backend call, and the sessions, the
\* registry and the connections stay as they were, so that the lines that follow
\* it are handled as usual.
C14_BadLineOneError ==
    [][\A s \in Receiving("") :
          /\ Len(wire'[s]) = Len(wire[s]) + 1
          /\ wire'[s][Len(wire'[s])].f.t = "error"
          /\ \A x \in Sessions \ {s} : wire'[x] = wire[x]
          /\ rpc' = rpc /\ tasks' = tasks
          /\ session' = session /\ clients' = clients /\ socket' = socket
      ]_vars

\* the positions on a session's wire of the responses to its requests; a response
\* carries the number of the line it answers
Responses(s) ==
    {j \in DOMAIN wire[s] : /\ wire[s][j].f.t \in {"result", "error", "subscribed"}
                            /\ wire[s][j].f.id > 0}

\* C15: on every session the responses are written in the order in which their
\* requests arrived, whatever the order of the backend's replies.
C15_ResponsesInArrivalOrder ==
    \A s \in Sessions : \A j1, j2 \in Responses(s) :
        j1 < j2 => wire[s][j1].f.id < wire[s][j2].f.id

\* C16: a connected session's authorized flag is true only if a mining.authorize
\* line of that session has been handled: a session that has just connected is
\* not authorized, and no other frame and no tick sets the flag.
C16_AuthorizedOnlyByAuthorize ==
    \A s \in Sessions :
        (socket[s] # "none" /\ session[s].authorized) =>
            LinesOf(s, "mining.authorize") # {}

\* the extra-nonce values the successful subscribe results of a session carry
ExtraNonces(s) ==
    {wire[s][j].f.extraNonce : j \in {k \in DOMAIN wire[s] : wire[s][k].f.t = "subscribed"}}

\* C17: two distinct sessions that have both subscribed successfully were given
\* different extra-nonce values.
C17_DistinctExtraNonces ==
    \A s1, s2 \in Sessions : s1 # s2 => ExtraNonces(s1) \cap ExtraNonces(s2) = {}

\* the handler of line i of session s is suspended on a backend call
Calling(s, i) == \E t \in tasks : t.kind # "tick" /\ t.s = s /\ t.id = i

\* broadcast tick k is suspended on a backend call
TickCalling(k) == \E t \in tasks : t.kind = "tick" /\ t.tick = k

\* C18: every backend call is bounded: a handler that waits for submitblock,
\* getblocktemplate or getblockchaininfo does not wait forever, even if the
\* backend never answers; the submit is answered and createMiningJob fails.
C18_BackendCallsBounded ==
    /\ \A s \in Sessions, i \in 1..MaxEvents : Calling(s, i) ~> ~Calling(s, i)
    /\ \A k \in 1..MaxEvents : TickCalling(k) ~> ~TickCalling(k)

\* C19: when the createMiningJob call of a mining.subscribe fails (node not
\* synced, no answer, template error), the session has already been written
\* mining.set_difficulty and the successful subscribe result; the failure writes
\* no frame (no error for the subscribe, no mining.notify), registers no job and
\* leaves the session, with the algorithm, difficulty and extra-nonce subscribe
\* bound, and the registry as they were.
C19_SubscribeSurvivesMintFailure ==
    [][\A t \in failed' \ failed :
          t.kind = "subscribe" =>
             /\ \E j \in DOMAIN wire[t.s] :
                   /\ j > 1
                   /\ wire[t.s][j].f.t = "subscribed" /\ wire[t.s][j].f.id = t.id
                   /\ wire[t.s][j - 1].f.t = "mining.set_difficulty"
             /\ wire' = wire
             /\ \A j \in DOMAIN wire'[t.s] :
                   ~(wire'[t.s][j].f.t = "error" /\ wire'[t.s][j].f.id = t.id)
             /\ currentJobs' = currentJobs
             /\ session' = session /\ clients' = clients /\ socket' = socket
             /\ session'[t.s].algorithm = t.algo
             /\ session'[t.s].difficulty = getDifficultyForAlgo(t.algo)
             /\ session'[t.s].extraNonce = ZeroBuffer(EXTRA_NONCE_BYTES)
      ]_vars

\* the first job of a subscribed session failed on the template fetch, and that
\* of another on the sync check; both sessions are still connected
C19_Witness ==
    \E t1, t2 \in failed :
        /\ t1.kind = "subscribe" /\ t1.pc = "tmpl"
        /\ t2.kind = "subscribe" /\ t2.pc = "sync"
        /\ {t1.s, t2.s} \subseteq clients

\* C20: no step modifies, replaces or removes an entry of the live-job table:
\* the table only grows, and every job createMiningJob resolves is registered
\* in that step under an id the table did not hold.
C20_JobTableOnlyGrows ==
    [][/\ \A id \in DOMAIN currentJobs :
             id \in DOMAIN currentJobs' /\ currentJobs'[id] = currentJobs[id]
       /\ Len(issued') > Len(issued) =>
             LET job == issued'[Len(issued')].job IN
             /\ job.job_id \notin DOMAIN currentJobs
             /\ DOMAIN currentJobs' = DOMAIN currentJobs \cup {job.job_id}
             /\ currentJobs'[job.job_id] = job
       /\ Len(issued') = Len(issued) => currentJobs' = currentJobs
      ]_vars

\* the table holds two jobs, a session has disconnected since, and a submit has
\* been forwarded to the node
C20_Witness ==
    /\ Cardinality(DOMAIN currentJobs) >= 2
    /\ \E s \in Sessions : socket[s] = "closed"
    /\ rpc.submitblock # {}

\* the ticks that have ended and whose every createMiningJob call succeeded
CleanTicks ==
    {k \in DOMAIN tickLog :
        /\ ~TickCalling(k)
        /\ \A i \in DOMAIN tickLog[k].visits : tickLog[k].visits[i].outcome = "ok"}

\* the jobs a tick minted for a session
TickJobs(k, s) ==
    {e \in {issued[n] : n \in DOMAIN issued} :
        e.t.kind = "tick" /\ e.t.tick = k /\ e.t.s = s}

C22_JobsHaveSupportedAlgorithm ==
    [][/\ \A id \in DOMAIN currentJobs' : currentJobs'[id].algorithm \in Supported
       /\ (jobCounter' # jobCounter \/ currentJobs' # currentJobs) =>
             \E t \in tasks \ tasks' : t.pc = "tmpl" /\ t.algo \in Supported
      ]_vars

\* C23: no mining.notify is written to the socket of a session after that
\* session's end or error event, also when the event comes while a handler or
\* a tick is suspended on the backend for a job of that session.
C23_NoNotifyAfterDisconnect ==
    \A s \in Sessions : \A j \in DOMAIN wire[s] :
        wire[s][j].f.t = "mining.notify" => ~wire[s][j].late

\* C24: whenever a mining.notify is written to a session, the job it carries
\* has the algorithm the session is bound to at that moment, also when a
\* mining.subscribe of the session was handled while the createMiningJob call
\* for that job was suspended on the backend.
C24_NotifyMatchesBoundAlgorithm ==
    [][\A s \in Sessions : \A j \in (DOMAIN wire'[s]) \ (DOMAIN wire[s]) :
          wire'[s][j].f.t = "mining.notify" =>
             /\ wire'[s][j].f.job_id \in DOMAIN currentJobs'
             /\ currentJobs'[wire'[s][j].f.job_id].algorithm = session'[s].algorithm
      ]_vars

====
